---- MODULE Spec2Model ----
(***************************************************************************)
(* Model of zerver/views/upload.py (file serving and upload handlers) and  *)
(* zerver/models/custom_profile_fields.py (check_valid_user_ids and the    *)
(* CustomProfileField field-type registry).                                *)
(*                                                                         *)
(* Python strings that the code takes apart (path ids, URLs, file names,   *)
(* header values) are sequences of Unicode code points.                    *)
(***************************************************************************)
EXTENDS Integers, Sequences, FiniteSets, TLC

VARIABLES
    settings,      \* django.conf.settings: LOCAL_UPLOADS_DIR, DEVELOPMENT
    attachments,   \* Attachment rows: path id -> [owner, realm, size]
    localFiles,    \* path ids with a file in the storage backend
    tokens,        \* unauthenticated access tokens: token -> path id
    nextToken,     \* number of tokens generated so far
    req,           \* the request handled last
    auth,          \* is_authorized of the request handled last
    backend,       \* the storage backend call of the request handled last
    resp,          \* the response (or raised error) of the request handled last
    calls,         \* the collaborators called for the request handled last, in order
    url,           \* patch_disposition_header: url argument
    is_attachment, \* patch_disposition_header: is_attachment argument
    header,        \* patch_disposition_header: response.headers
    users,         \* UserProfile rows: id -> [realm, is_active, is_bot]
    val,           \* check_valid_user_ids: val argument and its parameters
    result,        \* check_valid_user_ids: returned list or raised error
    fields         \* CustomProfileField rows

vars == <<settings, attachments, localFiles, tokens, nextToken, req, auth,
          backend, resp, calls, url, is_attachment, header, users, val,
          result, fields>>

serveVars == <<settings, attachments, localFiles, tokens, nextToken, req, auth,
               backend, resp, calls>>
dispositionVars == <<url, is_attachment, header>>
userIdVars == <<users, val, result>>

-----------------------------------------------------------------------------
(* Bounds of the model *)

\* longest url given to patch_disposition_header
MaxLen == 4
\* most tokens generate_unauthed_file_access_url hands out in one behaviour
MaxTokens == 1
\* most files in request.FILES
MaxFiles == 2
\* longest list given to check_valid_user_ids
MaxIds == 3
\* most CustomProfileField rows
MaxFields == 2

-----------------------------------------------------------------------------
(* Strings as sequences of code points *)

QUOTE == 34       \* '"'
PERCENT == 37     \* '%'
SLASH == 47       \* '/'
SEMICOLON == 59   \* ';'
HASH == 35        \* '#'
QUESTION == 63    \* '?'
BACKSLASH == 92   \* '\'

\* "attachment", "inline", "; ", 'filename="', "filename*=utf-8''"
S_attachment == <<97, 116, 116, 97, 99, 104, 109, 101, 110, 116>>
S_inline == <<105, 110, 108, 105, 110, 101>>
S_sep == <<59, 32>>
S_filename_eq == <<102, 105, 108, 101, 110, 97, 109, 101, 61, 34>>
S_filename_star == <<102, 105, 108, 101, 110, 97, 109, 101, 42, 61, 117, 116,
                     102, 45, 56, 39, 39>>
\* "/internal/uploads/"
S_internal_uploads == <<47, 105, 110, 116, 101, 114, 110, 97, 108, 47, 117, 112,
                        108, 111, 97, 100, 115, 47>>

\* s[i:] of Python, i counted from 1 here
Drop(s, i) == SubSeq(s, i, Len(s))

\* s.find(c): the least index holding c, 0 when there is none
Find(s, c) ==
    IF \E i \in 1..Len(s) : s[i] = c
    THEN CHOOSE i \in 1..Len(s) : s[i] = c /\ \A j \in 1..(i - 1) : s[j] # c
    ELSE 0

\* s.rfind(c): the greatest index holding c, 0 when there is none
RFind(s, c) ==
    IF \E i \in 1..Len(s) : s[i] = c
    THEN CHOOSE i \in 1..Len(s) : s[i] = c /\ \A j \in (i + 1)..Len(s) : s[j] # c
    ELSE 0

\* whether s continues with pat at index i
StartsAt(s, pat, i) ==
    /\ i + Len(pat) - 1 <= Len(s)
    /\ SubSeq(s, i, i + Len(pat) - 1) = pat

\* str.replace(old, new) for a non-empty old: leftmost non-overlapping matches
RECURSIVE Replace(_, _, _)
Replace(s, old, new) ==
    IF s = <<>> THEN <<>>
    ELSE IF StartsAt(s, old, 1)
         THEN new \o Replace(Drop(s, Len(old) + 1), old, new)
         ELSE <<s[1]>> \o Replace(Tail(s), old, new)

\* str.split(sep) for a one-character sep: the list of segments
RECURSIVE Split(_, _)
Split(s, c) ==
    LET i == Find(s, c) IN
    IF i = 0 THEN <<s>>
    ELSE <<SubSeq(s, 1, i - 1)>> \o Split(Drop(s, i + 1), c)

\* list[-1]
Last(l) == l[Len(l)]

\* os.path.basename (posixpath): p[p.rfind('/') + 1:]
Basename(p) == Drop(p, RFind(p, SLASH) + 1)

\* str.encode("ascii") succeeds
IsAscii(s) == \A i \in 1..Len(s) : s[i] < 128

-----------------------------------------------------------------------------
(* urllib.parse, as far as upload.py uses it *)

\* the first index at or after start holding one of '/', '?', '#',
\* Len(s) + 1 when there is none (urllib.parse._splitnetloc)
NetlocEnd(s, start) ==
    LET hits == {i \in start..Len(s) : s[i] \in {SLASH, QUESTION, HASH}} IN
    IF hits = {} THEN Len(s) + 1
    ELSE CHOOSE i \in hits : \A j \in hits : i <= j

\* s cut before the first c, s itself when it holds no c
CutAt(s, c) == IF Find(s, c) = 0 THEN s ELSE SubSeq(s, 1, Find(s, c) - 1)

\* urllib.parse._splitparams: cut at the first ';' of the last path segment
SplitParams(s) ==
    LET from == RFind(s, SLASH) + 1
        hits == {i \in from..Len(s) : s[i] = SEMICOLON} IN
    IF hits = {} THEN s
    ELSE SubSeq(s, 1, (CHOOSE i \in hits : \A j \in hits : i <= j) - 1)

\* urlparse(url).path for a url that names no scheme: the network location
\* after a leading "//" is dropped, then the fragment, the query and the
\* parameters of the last segment
UrlPath(u) ==
    LET afterNetloc == IF StartsAt(u, <<SLASH, SLASH>>, 1)
                       THEN Drop(u, NetlocEnd(u, 3))
                       ELSE u
    IN  SplitParams(CutAt(CutAt(afterNetloc, HASH), QUESTION))

\* str.encode("utf-8") of one code point
Utf8(c) ==
    IF c < 128 THEN <<c>>
    ELSE IF c < 2048 THEN <<192 + (c \div 64), 128 + (c % 64)>>
    ELSE IF c < 65536
         THEN <<224 + (c \div 4096), 128 + ((c \div 64) % 64), 128 + (c % 64)>>
         ELSE <<240 + (c \div 262144), 128 + ((c \div 4096) % 64),
                128 + ((c \div 64) % 64), 128 + (c % 64)>>

\* one upper-case hexadecimal digit
HexDigit(n) == IF n < 10 THEN 48 + n ELSE 55 + n

\* urllib.parse._ALWAYS_SAFE: letters, digits and "_.-~"
AlwaysSafe(b) ==
    b \in (48..57) \cup (65..90) \cup (97..122) \cup {95, 46, 45, 126}

\* the bytes of one code point, each kept when safe, else written %XX
RECURSIVE QuoteBytes(_)
QuoteBytes(bs) ==
    IF bs = <<>> THEN <<>>
    ELSE (IF AlwaysSafe(bs[1]) \/ bs[1] = SLASH
          THEN <<bs[1]>>
          ELSE <<PERCENT, HexDigit(bs[1] \div 16), HexDigit(bs[1] % 16)>>)
         \o QuoteBytes(Tail(bs))

\* urllib.parse.quote(s) with its default safe="/"
RECURSIVE Quote(_)
Quote(s) ==
    IF s = <<>> THEN <<>> ELSE QuoteBytes(Utf8(s[1])) \o Quote(Tail(s))

-----------------------------------------------------------------------------
(* patch_disposition_header *)

\* the two replacements in the other order: the backslash put before a
\* double quote is then doubled as well
EscapeFilename_QuotesFirst(filename) ==
    Replace(Replace(filename, <<QUOTE>>, <<BACKSLASH, QUOTE>>),
            <<BACKSLASH>>, <<BACKSLASH, BACKSLASH>>)

\* filename.replace("\\", "\\\\").replace('"', r"\"")
EscapeFilename(filename) ==
    Replace(Replace(filename, <<BACKSLASH>>, <<BACKSLASH, BACKSLASH>>),
            <<QUOTE>>, <<BACKSLASH, QUOTE>>)

\* the value patch_disposition_header gives Content-Disposition
patch_disposition_header(u, attachment) ==
    LET disposition == IF attachment THEN S_attachment ELSE S_inline
        filename == Basename(UrlPath(u))
        file_expr == IF IsAscii(filename)
                     THEN S_filename_eq \o EscapeFilename(filename) \o <<QUOTE>>
                     ELSE S_filename_star \o Quote(filename)
    IN  disposition \o S_sep \o file_expr

\* response.headers before any header is set
NoHeaders == <<>>

-----------------------------------------------------------------------------
(* Configuration, tenants, principals and stored files *)

\* settings.MAX_FILE_UPLOAD_SIZE, in MiB
MAX_FILE_UPLOAD_SIZE == 1
MiB == 1024 * 1024

\* Realm ids; NoRealm stands for a request whose host names no realm
Realms == {1, 2}
NoRealm == 0

\* UserProfile rows of the upload model and AnonymousUser
UploadUsers == {"u1", "u2"}
AnonymousUser == "AnonymousUser"
UserRealm(u) == IF u = "u1" THEN 1 ELSE 2

\* str(realm.id)
RealmIdStr(r) == <<48 + r>>

\* File names: "a.png", "c.htm", a name with no extension and no ASCII
\* letter, and "zz", which is never uploaded
N_a_png == <<97, 46, 112, 110, 103>>
N_c_htm == <<99, 46, 104, 116, 109>>
N_e_acute == <<233>>
N_zz == <<122, 122>>
\* "b/": the directory part an upload may put before the file name
D_b == <<98, 47>>

\* the names a user of the realm uploads in this model
UploadNames(r) == IF r = 1 THEN {N_a_png, N_c_htm} ELSE {N_e_acute}

\* the path id upload_message_image_from_request stores a file under:
\* "<realm id>/<directories>/<file name>"
UploadPathId(r, name) ==
    RealmIdStr(r) \o <<SLASH>> \o (IF name = N_c_htm THEN D_b ELSE <<>>) \o name

\* the realm_id_str and filename parts of the URLs requested from serve_file:
\* the three path ids an upload can store, and one that is never stored
RequestPaths ==
    {<<RealmIdStr(1), N_a_png>>, <<RealmIdStr(1), D_b \o N_c_htm>>,
     <<RealmIdStr(2), N_e_acute>>, <<RealmIdStr(1), N_zz>>}

\* the filename part of the URLs requested from serve_local_file_unauthed
UnauthedFilenames == {N_a_png, N_c_htm, N_e_acute, D_b \o N_c_htm}

\* settings.LOCAL_FILES_DIR with its trailing separator: "/f/"
LOCAL_FILES_DIR == <<47, 102, 47>>

\* zerver.lib.upload.base.INLINE_MIME_TYPES
INLINE_MIME_TYPES ==
    {"application/pdf", "image/gif", "image/jpeg", "image/png", "image/webp"}

\* mimetypes.guess_type(path)[0], by the extension of the last segment
guess_type(path) ==
    LET base == Basename(path)
        dot == RFind(base, 46)
        ext == IF dot = 0 THEN <<>> ELSE Drop(base, dot + 1) IN
    IF ext = <<112, 110, 103>> THEN "image/png"
    ELSE IF ext = <<104, 116, 109>> THEN "text/html"
    ELSE "None"

\* zerver.lib.upload.local.get_local_file_path: the path of the stored file,
\* None (here <<>>) when the file is not on disk
get_local_file_path(path_id) ==
    IF path_id \in localFiles THEN LOCAL_FILES_DIR \o path_id ELSE <<>>

\* zerver.models.validate_attachment_request: None for a path id with no
\* Attachment row in the realm, else whether the principal may read it
validate_attachment_request(user, path_id, realm) ==
    IF path_id \notin DOMAIN attachments \/ attachments[path_id].realm # realm
    THEN "None"
    ELSE IF user = attachments[path_id].owner THEN "True" ELSE "False"

\* realm.currently_used_upload_space_bytes()
RECURSIVE SumSizes(_)
SumSizes(ps) ==
    IF ps = {} THEN 0
    ELSE LET p == CHOOSE q \in ps : TRUE IN
         attachments[p].size + SumSizes(ps \ {p})

UsedSpace(r) == SumSizes({p \in DOMAIN attachments : attachments[p].realm = r})

\* realm.upload_quota_bytes()
upload_quota_bytes == MAX_FILE_UPLOAD_SIZE * MiB

\* zerver.lib.upload.check_upload_within_quota raises
QuotaExceeded(r, file_size) == UsedSpace(r) + file_size > upload_quota_bytes

\* zerver.lib.upload.local.get_local_file_path_id_from_token: None (here <<>>)
\* for a token that is unknown or expired
get_local_file_path_id_from_token(token) ==
    IF token \in DOMAIN tokens THEN tokens[token] ELSE <<>>

-----------------------------------------------------------------------------
(* Responses *)

\* a response or a raised error; headers is response.headers, data the JSON
\* body of json_success, file the file a FileResponse streams
Response(kind, status, msg, headers) ==
    [kind |-> kind, status |-> status, msg |-> msg, headers |-> headers,
     data |-> <<>>, file |-> <<>>, as_attachment |-> FALSE]

\* Django's default Content-Type of an HttpResponse
DefaultHeaders == "Content-Type" :> "text/html; charset=utf-8"

HttpResponseNotFound(msg) == Response("HttpResponseNotFound", 404, msg, DefaultHeaders)
HttpResponseForbidden(msg) == Response("HttpResponseForbidden", 403, msg, DefaultHeaders)

\* zerver.lib.exceptions.JsonableError(msg), as the view raises it
JsonableError(msg) ==
    Response("JsonableError", 400, msg, "Content-Type" :> "application/json")

\* zerver.lib.response.json_success(request, data)
json_success(data) ==
    [Response("json_success", 200, "", "Content-Type" :> "application/json")
        EXCEPT !.data = data]

\* django.shortcuts.redirect(url)
redirect(to) ==
    Response("HttpResponseRedirect", 302, "", DefaultHeaders @@ ("Location" :> to))

\* del response[name]
DelHeader(r, name) ==
    [r EXCEPT !.headers = [k \in (DOMAIN r.headers) \ {name} |-> r.headers[k]]]

\* response[name] = value
SetHeader(r, name, value) ==
    [r EXCEPT !.headers = (name :> value) @@ r.headers]

\* patch_cache_control(response, private=True, immutable=True)
patch_cache_control(r) == SetHeader(r, "Cache-Control", "private, immutable")

\* the redirect with Django's default Content-Type left in place
internal_nginx_redirect_KeepsContentType(internal_path) ==
    SetHeader(Response("HttpResponse", 200, "", DefaultHeaders),
              "X-Accel-Redirect", internal_path)

\* internal_nginx_redirect(internal_path)
internal_nginx_redirect(internal_path) ==
    DelHeader(SetHeader(Response("HttpResponse", 200, "", DefaultHeaders),
                        "X-Accel-Redirect", internal_path),
              "Content-Type")

\* FileResponse(open(local_path, "rb"), as_attachment=attachment)
FileResponse(local_path, attachment) ==
    [Response("FileResponse", 200, "",
              "Content-Type" :> (IF guess_type(local_path) = "None"
                                 THEN "application/octet-stream"
                                 ELSE guess_type(local_path)))
        EXCEPT !.file = local_path, !.as_attachment = attachment]

-----------------------------------------------------------------------------
(* The storage backends *)

\* "<p>File not found</p>" of serve_local and the texts of serve_file
M_local_not_found == "<p>File not found</p>"
M_not_found == "<p>File not found.</p>"
M_forbidden == "<p>You are not authorized to view this file.</p>"

\* an access URL: the route it names, and the token, path and download flag
\* it carries
Url(route, token, path, download) ==
    [route |-> route, token |-> token, path |-> path, download |-> download]

\* zerver.lib.upload.s3.get_signed_upload_url(path_id, download=download)
get_signed_upload_url(path_id, download) == Url("s3_signed", 0, path_id, download)

\* zerver.lib.upload.local.generate_unauthed_file_access_url(path_id): the
\* URL of serve_local_file_unauthed with a new token and the file name
generate_unauthed_file_access_url(path_id) ==
    Url("file_unauthed_from_token", nextToken + 1, Last(Split(path_id, SLASH)), FALSE)

\* what a backend call comes to: its response, the collaborators it called
\* and whether it generated an access token
Outcome(r, called, mint) == [resp |-> r, calls |-> called, mint |-> mint]

\* serve_s3(request, url_path, url_only, download)
serve_s3(url_path, url_only, download) ==
    LET signed == get_signed_upload_url(url_path, download) IN
    IF url_only
    THEN Outcome(json_success("url" :> signed), <<"get_signed_upload_url">>, FALSE)
    ELSE Outcome(redirect(signed), <<"get_signed_upload_url">>, FALSE)

\* the disposition taken from the MIME type alone
IsAttachment_IgnoresDownload(download, mimetype) == mimetype \notin INLINE_MIME_TYPES

\* attachment = download or mimetype not in INLINE_MIME_TYPES
IsAttachment(download, mimetype) == download \/ mimetype \notin INLINE_MIME_TYPES

\* the part of serve_local that serves content: a FileResponse in
\* development, else the internal redirect with its reconstructed header
ServeContent(path_id, local_path, attachment) ==
    IF settings.DEVELOPMENT
    THEN Outcome(patch_cache_control(FileResponse(local_path, attachment)),
                 <<"get_local_file_path", "guess_type", "FileResponse",
                   "patch_cache_control">>, FALSE)
    ELSE Outcome(
             patch_cache_control(
                 SetHeader(internal_nginx_redirect(Quote(S_internal_uploads \o path_id)),
                           "Content-Disposition",
                           patch_disposition_header(local_path, attachment))),
             <<"get_local_file_path", "guess_type", "internal_nginx_redirect",
               "patch_disposition_header", "patch_cache_control">>, FALSE)

\* url_only answered before the file is looked up
serve_local_UrlBeforeLookup(path_id, url_only, download) ==
    LET local_path == get_local_file_path(path_id) IN
    IF url_only
    THEN Outcome(json_success("url" :> generate_unauthed_file_access_url(path_id)),
                 <<"generate_unauthed_file_access_url">>, TRUE)
    ELSE IF local_path = <<>>
    THEN Outcome(HttpResponseNotFound(M_local_not_found),
                 <<"get_local_file_path">>, FALSE)
    ELSE ServeContent(path_id, local_path,
                      IsAttachment(download, guess_type(local_path)))

\* serve_local(request, path_id, url_only, download)
serve_local(path_id, url_only, download) ==
    LET local_path == get_local_file_path(path_id) IN
    IF local_path = <<>>
    THEN Outcome(HttpResponseNotFound(M_local_not_found),
                 <<"get_local_file_path">>, FALSE)
    ELSE IF url_only
    THEN Outcome(json_success("url" :> generate_unauthed_file_access_url(path_id)),
                 <<"get_local_file_path", "generate_unauthed_file_access_url">>, TRUE)
    ELSE ServeContent(path_id, local_path,
                      IsAttachment(download, guess_type(local_path)))

\* the record of a backend call, NoBackend when none was made
Backend(fn, path_id, url_only, download) ==
    [fn |-> fn, path_id |-> path_id, url_only |-> url_only, download |-> download]
NoBackend == Backend("none", <<>>, FALSE, FALSE)

-----------------------------------------------------------------------------
(* serve_file and its endpoints *)

\* zerver.context_processors.get_valid_realm_from_request raises
RealmUnresolved(host) == host = NoRealm

\* the not-found error get_valid_realm_from_request raises
InvalidSubdomainError ==
    Response("InvalidSubdomainError", 404, "Invalid subdomain",
             "Content-Type" :> "application/json")

\* what serve_file comes to once path_id is built: is_authorized, the backend
\* call, and the backend's outcome
FileOutcome(a, b, o) == [auth |-> a, backend |-> b, out |-> o]

\* serve_file with the forbidden answer left out: whatever is not None is served
ServeFileOutcome_ForbiddenServed(maybe_user_profile, host, path_id, url_only, download) ==
    IF RealmUnresolved(host)
    THEN FileOutcome("uncalled", NoBackend,
             Outcome(InvalidSubdomainError, <<"get_valid_realm_from_request">>, FALSE))
    ELSE
    LET is_authorized == validate_attachment_request(maybe_user_profile, path_id, host)
        first == <<"get_valid_realm_from_request", "validate_attachment_request">>
    IN
    IF is_authorized = "None"
    THEN FileOutcome(is_authorized, NoBackend,
             Outcome(HttpResponseNotFound(M_not_found), first, FALSE))
    ELSE IF settings.LOCAL_UPLOADS_DIR # <<>>
    THEN LET o == serve_local(path_id, url_only, download) IN
         FileOutcome(is_authorized, Backend("serve_local", path_id, url_only, download),
             Outcome(o.resp, first \o <<"serve_local">> \o o.calls, o.mint))
    ELSE LET o == serve_s3(path_id, url_only, download) IN
         FileOutcome(is_authorized, Backend("serve_s3", path_id, url_only, download),
             Outcome(o.resp, first \o <<"serve_s3">> \o o.calls, o.mint))

\* serve_file authorizing before it resolves the realm
ServeFileOutcome_AuthorizeFirst(maybe_user_profile, host, path_id, url_only, download) ==
    LET is_authorized == validate_attachment_request(maybe_user_profile, path_id, host)
        first == <<"validate_attachment_request", "get_valid_realm_from_request">>
    IN
    IF RealmUnresolved(host)
    THEN FileOutcome(is_authorized, NoBackend,
             Outcome(InvalidSubdomainError, first, FALSE))
    ELSE IF is_authorized = "None"
    THEN FileOutcome(is_authorized, NoBackend,
             Outcome(HttpResponseNotFound(M_not_found), first, FALSE))
    ELSE IF is_authorized = "False"
    THEN FileOutcome(is_authorized, NoBackend,
             Outcome(HttpResponseForbidden(M_forbidden), first, FALSE))
    ELSE IF settings.LOCAL_UPLOADS_DIR # <<>>
    THEN LET o == serve_local(path_id, url_only, download) IN
         FileOutcome(is_authorized, Backend("serve_local", path_id, url_only, download),
             Outcome(o.resp, first \o <<"serve_local">> \o o.calls, o.mint))
    ELSE LET o == serve_s3(path_id, url_only, download) IN
         FileOutcome(is_authorized, Backend("serve_s3", path_id, url_only, download),
             Outcome(o.resp, first \o <<"serve_s3">> \o o.calls, o.mint))

\* serve_file from get_valid_realm_from_request on; host is the realm of
\* the request's host, NoRealm when get_valid_realm_from_request raises
ServeFileOutcome(maybe_user_profile, host, path_id, url_only, download) ==
    IF RealmUnresolved(host)
    THEN FileOutcome("uncalled", NoBackend,
             Outcome(InvalidSubdomainError, <<"get_valid_realm_from_request">>, FALSE))
    ELSE
    LET is_authorized == validate_attachment_request(maybe_user_profile, path_id, host)
        first == <<"get_valid_realm_from_request", "validate_attachment_request">>
    IN
    IF is_authorized = "None"
    THEN FileOutcome(is_authorized, NoBackend,
             Outcome(HttpResponseNotFound(M_not_found), first, FALSE))
    ELSE IF is_authorized = "False"
    THEN FileOutcome(is_authorized, NoBackend,
             Outcome(HttpResponseForbidden(M_forbidden), first, FALSE))
    ELSE IF settings.LOCAL_UPLOADS_DIR # <<>>
    THEN LET o == serve_local(path_id, url_only, download) IN
         FileOutcome(is_authorized, Backend("serve_local", path_id, url_only, download),
             Outcome(o.resp, first \o <<"serve_local">> \o o.calls, o.mint))
    ELSE LET o == serve_s3(path_id, url_only, download) IN
         FileOutcome(is_authorized, Backend("serve_s3", path_id, url_only, download),
             Outcome(o.resp, first \o <<"serve_s3">> \o o.calls, o.mint))

\* the request as the handlers see it; on_disk tells whether the file of
\* path_id is on the local disk when the request arrives
Request(endpoint, realm, path_id, filename, url_only, download, token, nfiles, file_size) ==
    [endpoint |-> endpoint, realm |-> realm, path_id |-> path_id,
     filename |-> filename, url_only |-> url_only, download |-> download,
     token |-> token, nfiles |-> nfiles, file_size |-> file_size,
     on_disk |-> path_id \in localFiles]

NoRequest ==
    [endpoint |-> "none", realm |-> NoRealm, path_id |-> <<>>, filename |-> <<>>,
     url_only |-> FALSE, download |-> FALSE, token |-> 0, nfiles |-> 0,
     file_size |-> -1, on_disk |-> FALSE]

\* the token store after a backend call that may have generated a token
Minted(o, path_id) ==
    /\ o.mint => nextToken < MaxTokens
    /\ tokens' = IF o.mint THEN ((nextToken + 1) :> path_id) @@ tokens ELSE tokens
    /\ nextToken' = IF o.mint THEN nextToken + 1 ELSE nextToken

\* serve_file(request, maybe_user_profile, realm_id_str, filename, url_only, download)
serve_file(endpoint, maybe_user_profile, host, realm_id_str, filename, url_only, download) ==
    LET path_id == realm_id_str \o <<SLASH>> \o filename
        f == ServeFileOutcome(maybe_user_profile, host, path_id, url_only, download)
    IN  /\ Minted(f.out, path_id)
        /\ req' = Request(endpoint, host, path_id, filename, url_only, download, 0, 0, -1)
        /\ auth' = f.auth
        /\ backend' = f.backend
        /\ resp' = f.out.resp
        /\ calls' = f.out.calls
        /\ UNCHANGED <<settings, attachments, localFiles>>
        /\ UNCHANGED <<dispositionVars, userIdVars, fields>>

\* an authenticated user is a user of the realm the request's host names
Authenticated(user, host) == user \in UploadUsers /\ host = UserRealm(user)

serve_file_download_backend(user_profile, host, realm_id_str, filename) ==
    /\ Authenticated(user_profile, host)
    /\ serve_file("serve_file_download_backend", user_profile, host, realm_id_str,
                  filename, FALSE, TRUE)

serve_file_backend(maybe_user_profile, host, realm_id_str, filename) ==
    /\ Authenticated(maybe_user_profile, host) \/ maybe_user_profile = AnonymousUser
    /\ serve_file("serve_file_backend", maybe_user_profile, host, realm_id_str,
                  filename, FALSE, FALSE)

serve_file_url_backend(user_profile, host, realm_id_str, filename) ==
    /\ Authenticated(user_profile, host)
    /\ serve_file("serve_file_url_backend", user_profile, host, realm_id_str,
                  filename, TRUE, FALSE)

-----------------------------------------------------------------------------
(* serve_local_file_unauthed *)

\* the whole path id compared with the filename
FilenameMismatch_WholePath(path_id, filename) == path_id # filename

\* path_id.split("/")[-1] != filename
FilenameMismatch(path_id, filename) == Last(Split(path_id, SLASH)) # filename

\* serve_local_file_unauthed from the token on: the error raised, or the
\* call of serve_local
UnauthedOutcome(token, filename) ==
    LET path_id == get_local_file_path_id_from_token(token) IN
    IF path_id = <<>>
    THEN FileOutcome("uncalled", NoBackend,
             Outcome(JsonableError("Invalid token"),
                     <<"get_local_file_path_id_from_token">>, FALSE))
    ELSE IF FilenameMismatch(path_id, filename)
    THEN FileOutcome("uncalled", NoBackend,
             Outcome(JsonableError("Invalid filename"),
                     <<"get_local_file_path_id_from_token", "split">>, FALSE))
    ELSE LET o == serve_local(path_id, FALSE, FALSE) IN
         FileOutcome("uncalled", Backend("serve_local", path_id, FALSE, FALSE),
             Outcome(o.resp,
                     <<"get_local_file_path_id_from_token", "split", "serve_local">>
                         \o o.calls,
                     o.mint))

\* serve_local_file_unauthed(request, token, filename)
serve_local_file_unauthed(token, filename) ==
    LET f == UnauthedOutcome(token, filename) IN
    /\ Minted(f.out, f.backend.path_id)
    /\ req' = Request("serve_local_file_unauthed", NoRealm,
                      get_local_file_path_id_from_token(token), filename,
                      FALSE, FALSE, token, 0, -1)
    /\ auth' = f.auth
    /\ backend' = f.backend
    /\ resp' = f.out.resp
    /\ calls' = f.out.calls
    /\ UNCHANGED <<settings, attachments, localFiles>>
    /\ UNCHANGED <<dispositionVars, userIdVars, fields>>

-----------------------------------------------------------------------------
(* upload_file_backend *)

\* an UploadedFile of request.FILES
UploadedFile(name, size) == [name |-> name, size |-> size]

\* the sizes of the files uploaded in this model: the largest allowed and
\* one byte more
FileSizes == {MAX_FILE_UPLOAD_SIZE * MiB, MAX_FILE_UPLOAD_SIZE * MiB + 1}

\* request.FILES of a user of realm r: up to MaxFiles files; the files after
\* the first, which the handler never looks at, are all of the largest size
FilesOf(r) ==
    LET all == {UploadedFile(nm, sz) : nm \in UploadNames(r), sz \in FileSizes}
        rest == {f \in all : f.size = MAX_FILE_UPLOAD_SIZE * MiB}
    IN  UNION {{fs \in [1..n -> all] : \A i \in 2..n : fs[i] \in rest}
                  : n \in 0..MaxFiles}

\* the size check with <= for <
SizeTooLarge_AtLimit(file_size) == MAX_FILE_UPLOAD_SIZE * 1024 * 1024 <= file_size

\* settings.MAX_FILE_UPLOAD_SIZE * 1024 * 1024 < file_size
SizeTooLarge(file_size) == MAX_FILE_UPLOAD_SIZE * 1024 * 1024 < file_size

\* "/user_uploads/"
S_user_uploads == <<47, 117, 115, 101, 114, 95, 117, 112, 108, 111, 97, 100, 115, 47>>

\* what upload_file_backend comes to: its response, the collaborators it
\* called, and the path id the file is stored under (<<>> when none is)
UploadOutcome(user_profile, FILES) ==
    IF Len(FILES) = 0
    THEN [resp |-> JsonableError("You must specify a file to upload"),
          calls |-> <<>>, stored |-> <<>>]
    ELSE IF Len(FILES) # 1
    THEN [resp |-> JsonableError("You may only upload one file at a time"),
          calls |-> <<>>, stored |-> <<>>]
    ELSE
    LET user_file == FILES[1]
        file_size == user_file.size
    IN
    IF SizeTooLarge(file_size)
    \* "... allowed limit of {} MiB".format(settings.MAX_FILE_UPLOAD_SIZE)
    THEN [resp |-> JsonableError("Uploaded file is larger than the allowed limit of 1 MiB"),
          calls |-> <<>>, stored |-> <<>>]
    ELSE IF QuotaExceeded(UserRealm(user_profile), file_size)
    THEN [resp |-> JsonableError("Upload would exceed your organization's upload quota."),
          calls |-> <<"check_upload_within_quota">>, stored |-> <<>>]
    ELSE LET path_id == UploadPathId(UserRealm(user_profile), user_file.name) IN
         [resp |-> json_success("uri" :> (S_user_uploads \o path_id)),
          calls |-> <<"check_upload_within_quota", "upload_message_image_from_request">>,
          stored |-> path_id]

\* upload_file_backend(request, user_profile)
upload_file_backend(user_profile, FILES) ==
    LET u == UploadOutcome(user_profile, FILES)
        r == UserRealm(user_profile)
    IN
    \* a stored file gets a path id no Attachment row has
    /\ \A i \in 1..Len(FILES) : UploadPathId(r, FILES[i].name) \notin DOMAIN attachments
    /\ req' = [Request("upload_file_backend", r, u.stored, <<>>, FALSE, FALSE, 0,
                       Len(FILES), IF Len(FILES) = 0 THEN -1 ELSE FILES[1].size)
                   EXCEPT !.on_disk = FALSE]
    /\ auth' = "uncalled"
    /\ backend' = NoBackend
    /\ resp' = u.resp
    /\ calls' = u.calls
    /\ IF u.stored = <<>>
       THEN UNCHANGED <<attachments, localFiles>>
       ELSE /\ attachments' = (u.stored :> [owner |-> user_profile, realm |-> r,
                                             size |-> FILES[1].size]) @@ attachments
            /\ localFiles' = IF settings.LOCAL_UPLOADS_DIR # <<>>
                             THEN localFiles \cup {u.stored}
                             ELSE localFiles
    /\ UNCHANGED <<settings, tokens, nextToken>>
    /\ UNCHANGED <<dispositionVars, userIdVars, fields>>

-----------------------------------------------------------------------------
(* What happens outside the handlers *)

\* a stored file disappears from the local disk; its Attachment row stays
DeleteLocalFile(path_id) ==
    /\ path_id \in localFiles
    /\ localFiles' = localFiles \ {path_id}
    /\ UNCHANGED <<settings, attachments, tokens, nextToken, req, auth, backend,
                   resp, calls>>
    /\ UNCHANGED <<dispositionVars, userIdVars, fields>>

\* an access token reaches the end of its lifetime
ExpireToken(token) ==
    /\ token \in DOMAIN tokens
    /\ tokens' = [t \in (DOMAIN tokens) \ {token} |-> tokens[t]]
    /\ UNCHANGED <<settings, attachments, localFiles, nextToken, req, auth,
                   backend, resp, calls>>
    /\ UNCHANGED <<dispositionVars, userIdVars, fields>>

-----------------------------------------------------------------------------
(* The file serving and upload specification *)

\* the values of the variables a specification does not use
IdleServe ==
    /\ settings = [LOCAL_UPLOADS_DIR |-> <<>>, DEVELOPMENT |-> FALSE]
    /\ attachments = <<>>
    /\ localFiles = {}
    /\ tokens = <<>>
    /\ nextToken = 0
    /\ req = NoRequest
    /\ auth = "uncalled"
    /\ backend = NoBackend
    /\ resp = Response("none", 0, "", NoHeaders)
    /\ calls = <<>>

IdleDisposition ==
    /\ url = <<>>
    /\ is_attachment = FALSE
    /\ header = NoHeaders

IdleUserIds ==
    /\ users = <<>>
    /\ val = [realm_id |-> 0, user_ids |-> <<>>, allow_deactivated |-> FALSE]
    /\ result = [raised |-> "unset", user_id |-> 0, value |-> <<>>]

IdleFields == fields = {}

\* settings.LOCAL_UPLOADS_DIR is None (here <<>>) or the upload directory
\* "/f"; settings.DEVELOPMENT is either
Init ==
    /\ settings \in [LOCAL_UPLOADS_DIR : {<<>>, <<47, 102>>}, DEVELOPMENT : BOOLEAN]
    /\ attachments = <<>>
    /\ localFiles = {}
    /\ tokens = <<>>
    /\ nextToken = 0
    /\ req = NoRequest
    /\ auth = "uncalled"
    /\ backend = NoBackend
    /\ resp = Response("none", 0, "", NoHeaders)
    /\ calls = <<>>
    /\ IdleDisposition
    /\ IdleUserIds
    /\ IdleFields

Principals == UploadUsers \cup {AnonymousUser}

Next ==
    \/ \E u \in UploadUsers, h \in Realms, p \in RequestPaths :
           serve_file_download_backend(u, h, p[1], p[2])
    \/ \E u \in Principals, h \in Realms \cup {NoRealm}, p \in RequestPaths :
           serve_file_backend(u, h, p[1], p[2])
    \/ \E u \in UploadUsers, h \in Realms, p \in RequestPaths :
           serve_file_url_backend(u, h, p[1], p[2])
    \/ \E t \in 1..(MaxTokens + 1), f \in UnauthedFilenames :
           serve_local_file_unauthed(t, f)
    \/ \E u \in UploadUsers : \E fs \in FilesOf(UserRealm(u)) :
           upload_file_backend(u, fs)
    \/ \E p \in localFiles : DeleteLocalFile(p)
    \/ \E t \in DOMAIN tokens : ExpireToken(t)

Spec == Init /\ [][Next]_vars

-----------------------------------------------------------------------------
(* patch_disposition_header as a function of its arguments *)

\* the characters of the urls: '"', '#', '/', ';', '?', '\', 'a', and two
\* characters outside ASCII, U+00E9 and U+20AC
UrlAlphabet == {QUOTE, HASH, SLASH, SEMICOLON, QUESTION, BACKSLASH, 97, 233, 8364}

Urls == UNION {[1..n -> UrlAlphabet] : n \in 0..MaxLen}

InitDisposition ==
    /\ url \in Urls
    /\ is_attachment \in BOOLEAN
    /\ header = NoHeaders
    /\ IdleServe
    /\ IdleUserIds
    /\ IdleFields

\* patch_disposition_header(response, url, is_attachment)
PatchDispositionHeader ==
    /\ header' = ("Content-Disposition" :> patch_disposition_header(url, is_attachment))
                     @@ header
    /\ UNCHANGED <<url, is_attachment>>
    /\ UNCHANGED <<serveVars, userIdVars, fields>>

NextDisposition == PatchDispositionHeader

SpecDisposition == InitDisposition /\ [][NextDisposition]_vars

-----------------------------------------------------------------------------
(* check_valid_user_ids *)

\* the ids of the UserProfile rows, and one id that no row has
UserIds == 1..4
UnknownUserId == Cardinality(UserIds) + 1

\* UserProfile rows: two people of realm 1, a bot of realm 1 and a person of
\* realm 2; active says which of them are active
UserTable(active) ==
    [id \in UserIds |->
        [realm |-> IF id = 4 THEN 2 ELSE 1,
         is_active |-> id \in active,
         is_bot |-> id = 3]]

\* get_user_profile_by_id_in_realm(user_id, realm) raises UserProfile.DoesNotExist
DoesNotExist(user_id, realm) ==
    user_id \notin DOMAIN users \/ users[user_id].realm # realm

\* what check_valid_user_ids comes to: the list it returns, or the
\* ValidationError it raises and the user id the error names
Returned(user_ids) == [raised |-> "none", user_id |-> 0, value |-> user_ids]
ValidationError(kind, user_id) == [raised |-> kind, user_id |-> user_id, value |-> <<>>]

\* the loop body with the bot check before the deactivation check
CheckUserId_BotFirst(user_id, realm, allow_deactivated) ==
    IF DoesNotExist(user_id, realm) THEN "Invalid user ID"
    ELSE IF users[user_id].is_bot THEN "is a bot"
    ELSE IF ~allow_deactivated /\ ~users[user_id].is_active THEN "is deactivated"
    ELSE "none"

\* the body of the loop for one user id: the error it raises, "none" when
\* it raises none
CheckUserId(user_id, realm, allow_deactivated) ==
    IF DoesNotExist(user_id, realm) THEN "Invalid user ID"
    ELSE IF ~allow_deactivated /\ ~users[user_id].is_active THEN "is deactivated"
    ELSE IF users[user_id].is_bot THEN "is a bot"
    ELSE "none"

\* the loop of check_valid_user_ids from index i on
RECURSIVE CheckFrom(_, _, _, _)
CheckFrom(user_ids, realm, allow_deactivated, i) ==
    IF i > Len(user_ids) THEN Returned(user_ids)
    ELSE LET e == CheckUserId(user_ids[i], realm, allow_deactivated) IN
         IF e # "none" THEN ValidationError(e, user_ids[i])
         ELSE CheckFrom(user_ids, realm, allow_deactivated, i + 1)

\* check_valid_user_ids(realm_id, val, allow_deactivated) for a val that
\* check_list(check_int) accepts
check_valid_user_ids(realm_id, user_ids, allow_deactivated) ==
    CheckFrom(user_ids, realm_id, allow_deactivated, 1)

IdLists == UNION {[1..n -> UserIds \cup {UnknownUserId}] : n \in 0..MaxIds}

InitUserIds ==
    /\ users \in {UserTable(active) : active \in SUBSET UserIds}
    /\ val \in [realm_id : Realms, user_ids : IdLists, allow_deactivated : BOOLEAN]
    /\ result = [raised |-> "unset", user_id |-> 0, value |-> <<>>]
    /\ IdleServe
    /\ IdleDisposition
    /\ IdleFields

CheckValidUserIds ==
    /\ result' = check_valid_user_ids(val.realm_id, val.user_ids, val.allow_deactivated)
    /\ UNCHANGED <<users, val>>
    /\ UNCHANGED <<serveVars, dispositionVars, fields>>

NextUserIds == CheckValidUserIds

SpecUserIds == InitUserIds /\ [][NextUserIds]_vars

-----------------------------------------------------------------------------
(* The field-type registry of CustomProfileField *)

SHORT_TEXT == 1
LONG_TEXT == 2
SELECT == 3
DATE == 4
URL == 5
USER == 6
EXTERNAL_ACCOUNT == 7
PRONOUNS == 8

\* the display names, as the strings sorted() compares
L_text_short == <<84, 101, 120, 116, 32, 40, 115, 104, 111, 114, 116, 41>>
L_text_long == <<84, 101, 120, 116, 32, 40, 108, 111, 110, 103, 41>>
L_date == <<68, 97, 116, 101>>
L_link == <<76, 105, 110, 107>>
L_external_account == <<69, 120, 116, 101, 114, 110, 97, 108, 32, 97, 99, 99,
                        111, 117, 110, 116>>
L_pronouns == <<80, 114, 111, 110, 111, 117, 110, 115>>
L_list_of_options == <<76, 105, 115, 116, 32, 111, 102, 32, 111, 112, 116,
                       105, 111, 110, 115>>
L_users == <<85, 115, 101, 114, 115>>

\* one row of a *_FIELD_TYPE_DATA list:
\* (type, display name, validator, converter, keyword)
SELECT_FIELD_TYPE_DATA ==
    << <<SELECT, L_list_of_options, "validate_select_field", "str", "SELECT">> >>

USER_FIELD_TYPE_DATA ==
    << <<USER, L_users, "check_valid_user_ids", "orjson.loads", "USER">> >>

\* FIELD_TYPE_DATA with the PRONOUNS row under the type of the row above it
FIELD_TYPE_DATA_RepeatedType ==
    << <<SHORT_TEXT, L_text_short, "check_short_string", "str", "SHORT_TEXT">>,
       <<LONG_TEXT, L_text_long, "check_long_string", "str", "LONG_TEXT">>,
       <<DATE, L_date, "check_date", "str", "DATE">>,
       <<URL, L_link, "check_url", "str", "URL">>,
       <<EXTERNAL_ACCOUNT, L_external_account, "check_short_string", "str",
         "EXTERNAL_ACCOUNT">>,
       <<EXTERNAL_ACCOUNT, L_pronouns, "check_short_string", "str", "PRONOUNS">> >>

FIELD_TYPE_DATA ==
    << <<SHORT_TEXT, L_text_short, "check_short_string", "str", "SHORT_TEXT">>,
       <<LONG_TEXT, L_text_long, "check_long_string", "str", "LONG_TEXT">>,
       <<DATE, L_date, "check_date", "str", "DATE">>,
       <<URL, L_link, "check_url", "str", "URL">>,
       <<EXTERNAL_ACCOUNT, L_external_account, "check_short_string", "str",
         "EXTERNAL_ACCOUNT">>,
       <<PRONOUNS, L_pronouns, "check_short_string", "str", "PRONOUNS">> >>

\* {item[k]: item[v] for item in data}: a later item replaces an earlier one
\* of the same key
DictOf(data, k, v) ==
    [key \in {data[i][k] : i \in 1..Len(data)} |->
        data[CHOOSE i \in 1..Len(data) :
                 /\ data[i][k] = key
                 /\ \A j \in (i + 1)..Len(data) : data[j][k] # key][v]]

\* a < b for strings
StrLess(a, b) ==
    \/ Len(a) < Len(b) /\ SubSeq(b, 1, Len(a)) = a
    \/ \E i \in 1..Len(a) :
           /\ i <= Len(b)
           /\ SubSeq(a, 1, i - 1) = SubSeq(b, 1, i - 1)
           /\ a[i] < b[i]

\* x put into a list sorted by display name, after the items not greater
RECURSIVE InsertSorted(_, _)
InsertSorted(x, l) ==
    IF l = <<>> THEN <<x>>
    ELSE IF StrLess(x[2], l[1][2]) THEN <<x>> \o l
    ELSE <<l[1]>> \o InsertSorted(x, Tail(l))

\* sorted(data, key=lambda x: x[1]), a stable sort
RECURSIVE SortedByName(_)
SortedByName(data) ==
    IF data = <<>> THEN <<>>
    ELSE InsertSorted(data[Len(data)], SortedByName(SubSeq(data, 1, Len(data) - 1)))

ALL_FIELD_TYPES ==
    SortedByName(FIELD_TYPE_DATA \o SELECT_FIELD_TYPE_DATA \o USER_FIELD_TYPE_DATA)

SELECT_FIELD_VALIDATORS == DictOf(SELECT_FIELD_TYPE_DATA, 1, 3)
USER_FIELD_VALIDATORS == DictOf(USER_FIELD_TYPE_DATA, 1, 3)
FIELD_VALIDATORS == DictOf(FIELD_TYPE_DATA, 1, 3)
FIELD_CONVERTERS == DictOf(ALL_FIELD_TYPES, 1, 4)

\* [(item[0], item[1]) for item in ALL_FIELD_TYPES]
FIELD_TYPE_CHOICES ==
    [i \in 1..Len(ALL_FIELD_TYPES) |-> <<ALL_FIELD_TYPES[i][1], ALL_FIELD_TYPES[i][2]>>]

\* the names of the fields of this model
FieldNames == {"team", "mentor"}

\* a CustomProfileField row; field_type is one of FIELD_TYPE_CHOICES
\* (default SHORT_TEXT) and (realm, name) is unique
CreateField(realm, name, field_type) ==
    /\ Cardinality(fields) < MaxFields
    /\ \E i \in 1..Len(FIELD_TYPE_CHOICES) : FIELD_TYPE_CHOICES[i][1] = field_type
    /\ \A f \in fields : ~(f.realm = realm /\ f.name = name)
    /\ fields' = fields \cup {[realm |-> realm, name |-> name, field_type |-> field_type]}
    /\ UNCHANGED <<serveVars, dispositionVars, userIdVars>>

\* the row is deleted
DeleteField(f) ==
    /\ f \in fields
    /\ fields' = fields \ {f}
    /\ UNCHANGED <<serveVars, dispositionVars, userIdVars>>

\* CustomProfileField.is_renderable
is_renderable(f) == f.field_type \in {SHORT_TEXT, LONG_TEXT}

InitFields ==
    /\ fields = {}
    /\ IdleServe
    /\ IdleDisposition
    /\ IdleUserIds

NextFields ==
    \/ \E realm \in Realms, name \in FieldNames, field_type \in 0..9 :
           CreateField(realm, name, field_type)
    \/ \E f \in fields : DeleteField(f)

SpecFields == InitFields /\ [][NextFields]_vars

-----------------------------------------------------------------------------
(* Properties of serve_file *)

ServeFileEndpoints ==
    {"serve_file_download_backend", "serve_file_backend", "serve_file_url_backend"}

\* how many storage backend calls the request made
BackendCalls ==
    Cardinality({i \in 1..Len(calls) : calls[i] \in {"serve_local", "serve_s3"}})

\* C1: for a serve_file request whose realm resolves, the authorization
\* result alone decides the outcome: None gives not-found, False gives
\* forbidden, and in both no backend is called; True calls exactly one
\* backend, serve_local when LOCAL_UPLOADS_DIR is set and serve_s3 otherwise.
C1_AuthorizationDecides ==
    (req.endpoint \in ServeFileEndpoints /\ req.realm # NoRealm) =>
        /\ auth \in {"None", "False", "True"}
        /\ auth = "None" =>
               /\ resp.kind = "HttpResponseNotFound" /\ resp.status = 404
               /\ backend = NoBackend /\ BackendCalls = 0
        /\ auth = "False" =>
               /\ resp.kind = "HttpResponseForbidden" /\ resp.status = 403
               /\ backend = NoBackend /\ BackendCalls = 0
        /\ auth = "True" =>
               /\ BackendCalls = 1
               /\ backend = Backend(IF settings.LOCAL_UPLOADS_DIR # <<>>
                                    THEN "serve_local" ELSE "serve_s3",
                                    req.path_id, req.url_only, req.download)
               /\ backend.fn \in {calls[i] : i \in 1..Len(calls)}

\* an allowed path was handed to the object-storage backend
C1_Witness ==
    /\ req.endpoint \in ServeFileEndpoints
    /\ auth = "True"
    /\ backend.fn = "serve_s3"
    /\ resp.kind = "HttpResponseRedirect"

\* C6: serve_file resolves the realm before it authorizes; when the realm
\* does not resolve the request ends not-found and neither
\* validate_attachment_request nor a storage backend is called.
C6_RealmFirst ==
    req.endpoint \in ServeFileEndpoints =>
        /\ calls[1] = "get_valid_realm_from_request"
        /\ \A i \in 1..Len(calls) : calls[i] = "validate_attachment_request" => i = 2
        /\ req.realm = NoRealm =>
               /\ resp.status = 404
               /\ auth = "uncalled"
               /\ \A i \in 1..Len(calls) : calls[i] # "validate_attachment_request"
               /\ backend = NoBackend /\ BackendCalls = 0

\* a request whose realm did not resolve was answered
C6_Witness ==
    /\ req.endpoint = "serve_file_backend"
    /\ req.realm = NoRealm
    /\ req.path_id \in DOMAIN attachments
    /\ resp.status = 404

-----------------------------------------------------------------------------
(* Properties of upload_file_backend *)

Persisted ==
    \E i \in 1..Len(calls) : calls[i] = "upload_message_image_from_request"

\* C2: upload_file_backend fails with no file, with more than one file, with
\* one file larger than MAX_FILE_UPLOAD_SIZE MiB and with one file that
\* exceeds the quota of the realm; otherwise it stores the file and returns
\* its locator. A failing upload stores nothing, and a file of exactly the
\* largest size is not rejected for its size.
C2_UploadOneFile ==
    req.endpoint = "upload_file_backend" =>
        LET limit == MAX_FILE_UPLOAD_SIZE * MiB
            failed == resp.kind = "JsonableError"
            stored == req.path_id \in DOMAIN attachments
            \* the space the realm uses without the file of this request
            before == UsedSpace(req.realm) - (IF stored THEN req.file_size ELSE 0)
            over == before + req.file_size > upload_quota_bytes
        IN  /\ failed \/ resp.kind = "json_success"
            /\ failed <=> ~Persisted
            /\ failed <=> req.path_id = <<>>
            /\ failed <=> \/ req.nfiles = 0
                          \/ req.nfiles > 1
                          \/ req.file_size > limit
                          \/ over
            /\ req.nfiles = 0 => resp.msg = "You must specify a file to upload"
            /\ req.nfiles > 1 => resp.msg = "You may only upload one file at a time"
            /\ (req.nfiles = 1 /\ req.file_size > limit) =>
                   resp.msg = "Uploaded file is larger than the allowed limit of 1 MiB"
            /\ (req.nfiles = 1 /\ req.file_size <= limit /\ over) =>
                   resp.msg = "Upload would exceed your organization's upload quota."
            /\ (req.nfiles = 1 /\ req.file_size = limit) =>
                   resp.msg # "Uploaded file is larger than the allowed limit of 1 MiB"
            /\ ~failed =>
                   /\ stored
                   /\ attachments[req.path_id].size = req.file_size
                   /\ attachments[req.path_id].realm = req.realm
                   /\ resp.data = ("uri" :> (S_user_uploads \o req.path_id))

\* a file of exactly the largest size was stored
C2_Witness ==
    /\ req.endpoint = "upload_file_backend"
    /\ req.nfiles = 1
    /\ req.file_size = MAX_FILE_UPLOAD_SIZE * MiB
    /\ resp.kind = "json_success"
    /\ Persisted

-----------------------------------------------------------------------------
(* Properties of serve_local_file_unauthed *)

\* the part of p after its last '/', all of p when it holds none
TrailingSegment(p) ==
    LET n == CHOOSE k \in 0..Len(p) :
                 /\ \A i \in (Len(p) - k + 1)..Len(p) : p[i] # SLASH
                 /\ k = Len(p) \/ p[Len(p) - k] = SLASH
    IN  SubSeq(p, Len(p) - n + 1, Len(p))

\* C3: serve_local_file_unauthed raises "Invalid token" when the token
\* resolves to no path id, raises "Invalid filename" when it resolves and the
\* last '/'-separated segment of the path id is not the filename, and else
\* calls serve_local with url_only false and download false. Neither error
\* calls serve_local, and the token is checked before the filename.
C3_TokenThenFilename ==
    req.endpoint = "serve_local_file_unauthed" =>
        /\ calls[1] = "get_local_file_path_id_from_token"
        /\ req.path_id = <<>> =>
               /\ resp.kind = "JsonableError" /\ resp.msg = "Invalid token"
               /\ calls = <<"get_local_file_path_id_from_token">>
               /\ backend = NoBackend /\ BackendCalls = 0
        /\ (req.path_id # <<>> /\ TrailingSegment(req.path_id) # req.filename) =>
               /\ resp.kind = "JsonableError" /\ resp.msg = "Invalid filename"
               /\ backend = NoBackend /\ BackendCalls = 0
        /\ (req.path_id # <<>> /\ TrailingSegment(req.path_id) = req.filename) =>
               /\ resp.kind # "JsonableError"
               /\ backend = Backend("serve_local", req.path_id, FALSE, FALSE)
               /\ BackendCalls = 1

\* a token of a file in a directory was redeemed with the file's name
C3_Witness ==
    /\ req.endpoint = "serve_local_file_unauthed"
    /\ req.path_id = UploadPathId(1, N_c_htm)
    /\ req.filename = N_c_htm
    /\ backend.fn = "serve_local"
    /\ resp.status = 200

-----------------------------------------------------------------------------
(* Properties of the storage backends *)

\* the request reached serve_local, found the file and was to serve content
ServesContent ==
    /\ backend.fn = "serve_local"
    /\ req.on_disk
    /\ ~backend.url_only

\* whether the response asks for an attachment: as_attachment of a
\* FileResponse, the disposition word of a reconstructed header
AsksAttachment ==
    IF resp.kind = "FileResponse" THEN resp.as_attachment
    ELSE StartsAt(resp.headers["Content-Disposition"], S_attachment \o S_sep, 1)

AsksInline ==
    IF resp.kind = "FileResponse" THEN ~resp.as_attachment
    ELSE StartsAt(resp.headers["Content-Disposition"], S_inline \o S_sep, 1)

\* C7: an authorized url_only request is answered with an access URL in a
\* JSON body and never with a file stream, an X-Accel-Redirect or an HTTP
\* redirect: a newly generated token URL from serve_local when the file is
\* on disk, a signed URL from serve_s3. Without url_only serve_s3 redirects
\* to the signed URL. serve_local answers not-found for a path id with no
\* local file, url_only or not.
C7_UrlOnly ==
    /\ \A t \in DOMAIN tokens : t \in 1..nextToken
    /\ (backend.fn # "none" /\ backend.url_only) =>
           /\ resp.kind \notin {"FileResponse", "HttpResponseRedirect", "HttpResponse"}
           /\ "X-Accel-Redirect" \notin DOMAIN resp.headers
           /\ "Location" \notin DOMAIN resp.headers
           /\ resp.file = <<>>
           /\ backend.fn = "serve_s3" =>
                  /\ resp.kind = "json_success"
                  /\ resp.data = ("url" :> Url("s3_signed", 0, req.path_id, FALSE))
           /\ (backend.fn = "serve_local" /\ req.on_disk) =>
                  /\ resp.kind = "json_success"
                  /\ DOMAIN resp.data = {"url"}
                  /\ resp.data["url"].route = "file_unauthed_from_token"
                  /\ resp.data["url"].token = nextToken
                  /\ resp.data["url"].path = TrailingSegment(req.path_id)
                  /\ nextToken \in DOMAIN tokens => tokens[nextToken] = req.path_id
    /\ (backend.fn = "serve_s3" /\ ~backend.url_only) =>
           /\ resp.kind = "HttpResponseRedirect"
           /\ resp.headers["Location"] = Url("s3_signed", 0, req.path_id, req.download)
    /\ (backend.fn = "serve_local" /\ ~req.on_disk) =>
           /\ resp.kind = "HttpResponseNotFound"
           /\ resp.data = <<>>

\* a url_only request got a token URL from the local backend
C7_Witness ==
    /\ req.endpoint = "serve_file_url_backend"
    /\ backend.fn = "serve_local"
    /\ req.on_disk
    /\ resp.kind = "json_success"
    /\ tokens = (nextToken :> req.path_id)

\* C9: when serve_local serves content the response asks for an attachment
\* iff download is set or the guessed MIME type is not in INLINE_MIME_TYPES
\* (none guessed counts as not in it), whichever way the content is
\* delivered; so the download endpoint always asks for an attachment, and the
\* view and token endpoints ask for inline exactly for the listed types.
C9_Disposition ==
    ServesContent =>
        LET listed == guess_type(req.path_id) \in INLINE_MIME_TYPES IN
        /\ AsksAttachment <=> ~AsksInline
        /\ AsksAttachment <=> (backend.download \/ ~listed)
        /\ guess_type(req.path_id) = "None" => AsksAttachment
        /\ req.endpoint = "serve_file_download_backend" => AsksAttachment
        /\ req.endpoint \in {"serve_file_backend", "serve_local_file_unauthed"} =>
               (AsksInline <=> listed)

\* the view endpoint sent a listed type inline through the internal redirect
C9_Witness ==
    /\ ServesContent
    /\ req.endpoint = "serve_file_backend"
    /\ resp.kind = "HttpResponse"
    /\ guess_type(req.path_id) = "image/png"
    /\ AsksInline

\* "/internal/uploads/2/%C3%A9": the quoted internal path of "2/<U+00E9>"
S_internal_quoted_e_acute == S_internal_uploads \o <<50, 47, 37, 67, 51, 37, 65, 57>>

\* C10: when serve_local serves content it uses one delivery: in
\* development a FileResponse with no X-Accel-Redirect; otherwise a response
\* whose X-Accel-Redirect is the quoted "/internal/uploads/<path_id>", with
\* no Content-Type and with the reconstructed Content-Disposition. Both
\* carry Cache-Control "private, immutable"; the not-found and url_only
\* responses carry none.
C10_Delivery ==
    /\ ServesContent =>
           /\ settings.DEVELOPMENT =>
                  /\ resp.kind = "FileResponse"
                  /\ resp.file = LOCAL_FILES_DIR \o req.path_id
                  /\ "X-Accel-Redirect" \notin DOMAIN resp.headers
           /\ ~settings.DEVELOPMENT =>
                  /\ resp.kind = "HttpResponse"
                  /\ resp.file = <<>>
                  /\ DOMAIN resp.headers =
                         {"X-Accel-Redirect", "Content-Disposition", "Cache-Control"}
                  /\ resp.headers["X-Accel-Redirect"] =
                         IF req.path_id = <<50, 47, 233>>
                         THEN S_internal_quoted_e_acute
                         ELSE S_internal_uploads \o req.path_id
                  /\ \/ StartsAt(resp.headers["Content-Disposition"],
                                 S_attachment \o S_sep \o <<102, 105, 108, 101>>, 1)
                     \/ StartsAt(resp.headers["Content-Disposition"],
                                 S_inline \o S_sep \o <<102, 105, 108, 101>>, 1)
           /\ resp.headers["Cache-Control"] = "private, immutable"
    /\ resp.kind \in {"HttpResponseNotFound", "json_success"} =>
           "Cache-Control" \notin DOMAIN resp.headers

\* a file with a name outside ASCII went through the internal redirect
C10_Witness ==
    /\ ServesContent
    /\ ~settings.DEVELOPMENT
    /\ req.path_id = <<50, 47, 233>>
    /\ resp.headers["X-Accel-Redirect"] = S_internal_quoted_e_acute

-----------------------------------------------------------------------------
(* Properties of patch_disposition_header *)

\* every backslash and every double quote of s with one backslash before it
RECURSIVE BackslashEscaped(_)
BackslashEscaped(s) ==
    IF s = <<>> THEN <<>>
    ELSE (IF s[1] \in {BACKSLASH, QUOTE} THEN <<BACKSLASH, s[1]>> ELSE <<s[1]>>)
         \o BackslashEscaped(Tail(s))

\* the url has none of the parts urlparse takes away before the path ends
PlainPath(u) ==
    /\ \A i \in 1..Len(u) : u[i] \notin {HASH, QUESTION, SEMICOLON}
    /\ ~StartsAt(u, <<SLASH, SLASH>>, 1)

\* C5: patch_disposition_header sets Content-Disposition from the basename
\* of the path of url: "attachment" or "inline" by is_attachment, then
\* filename="<name>" with each backslash and each double quote behind one
\* added backslash when the name is ASCII, and else
\* filename*=utf-8''<percent-encoded name>; one of the two forms, never both.
C5_ContentDisposition ==
    header # NoHeaders =>
        LET h == header["Content-Disposition"]
            word == IF is_attachment THEN S_attachment ELSE S_inline
            name == Basename(UrlPath(url))
            expr == Drop(h, Len(word) + Len(S_sep) + 1)
            plain == StartsAt(expr, S_filename_eq, 1)
            extended == StartsAt(expr, S_filename_star, 1)
        IN  /\ DOMAIN header = {"Content-Disposition"}
            /\ StartsAt(h, word \o S_sep, 1)
            /\ PlainPath(url) => name = TrailingSegment(url)
            /\ plain <=> ~extended
            /\ plain <=> \A i \in 1..Len(name) : name[i] < 128
            /\ plain => expr = S_filename_eq \o BackslashEscaped(name) \o <<QUOTE>>
            /\ extended => expr = S_filename_star \o Quote(name)
            \* "/<U+00E9>" gives %C3%A9 and 'a"a' gives a\"a
            /\ url = <<SLASH, 233>> => expr = S_filename_star \o <<37, 67, 51, 37, 65, 57>>
            /\ url = <<97, QUOTE, 97>> =>
                   expr = S_filename_eq \o <<97, BACKSLASH, QUOTE, 97, QUOTE>>

\* a name with a backslash before a double quote was escaped
C5_Witness ==
    /\ header # NoHeaders
    /\ url = <<SLASH, BACKSLASH, QUOTE>>
    /\ header["Content-Disposition"] =
           S_inline \o S_sep \o S_filename_eq
               \o <<BACKSLASH, BACKSLASH, BACKSLASH, QUOTE, QUOTE>>

-----------------------------------------------------------------------------
(* Properties of check_valid_user_ids *)

\* the user id is no active person of the realm, as the call counts it
Offends(user_id, realm_id, allow_deactivated) ==
    \/ user_id \notin DOMAIN users
    \/ users[user_id].realm # realm_id
    \/ ~users[user_id].is_active /\ ~allow_deactivated
    \/ users[user_id].is_bot

\* C4: check_valid_user_ids raises for an id that is not a user of the
\* realm, for a deactivated user unless allow_deactivated, and for a bot
\* always; it returns the list as given when no id offends. The error is
\* that of the first offending id, and for one id existence is checked
\* before deactivation, and deactivation before bot.
C4_ValidUserIds ==
    result.raised # "unset" =>
        LET ids == val.user_ids
            bad == {i \in 1..Len(ids) :
                       Offends(ids[i], val.realm_id, val.allow_deactivated)}
        IN  /\ bad = {} <=> result.raised = "none"
            /\ bad = {} => result.value = ids
            /\ bad # {} =>
                   LET first == CHOOSE i \in bad : \A j \in bad : i <= j
                       id == ids[first]
                   IN  /\ result.user_id = id
                       /\ result.value = <<>>
                       /\ result.raised =
                              IF id \notin DOMAIN users \/ users[id].realm # val.realm_id
                              THEN "Invalid user ID"
                              ELSE IF ~users[id].is_active /\ ~val.allow_deactivated
                              THEN "is deactivated"
                              ELSE "is a bot"
            /\ (\E i \in 1..Len(ids) : ids[i] \in DOMAIN users /\ users[ids[i]].is_bot)
                   => result.raised # "none"

\* a deactivated bot behind an active person was refused as deactivated
C4_Witness ==
    /\ result.raised = "is deactivated"
    /\ ~val.allow_deactivated
    /\ Len(val.user_ids) >= 2
    /\ result.user_id = val.user_ids[2]
    /\ users[result.user_id].is_bot
    /\ ~users[result.user_id].is_active

-----------------------------------------------------------------------------
(* Properties of the field-type registry *)

FieldTypes ==
    {SHORT_TEXT, LONG_TEXT, SELECT, DATE, URL, USER, EXTERNAL_ACCOUNT, PRONOUNS}

AllTypeData == FIELD_TYPE_DATA \o SELECT_FIELD_TYPE_DATA \o USER_FIELD_TYPE_DATA

\* in how many of the three validator tables the type has a validator
ValidatorTables(t) ==
    Cardinality({k \in {"FIELD", "SELECT", "USER"} :
        \/ k = "FIELD" /\ t \in DOMAIN FIELD_VALIDATORS
        \/ k = "SELECT" /\ t \in DOMAIN SELECT_FIELD_VALIDATORS
        \/ k = "USER" /\ t \in DOMAIN USER_FIELD_VALIDATORS})

\* C8: each of the eight field types has a validator in exactly one of the
\* three tables (FIELD_VALIDATORS the six simple types, SELECT_FIELD_VALIDATORS
\* SELECT, USER_FIELD_VALIDATORS USER), one entry in FIELD_CONVERTERS and one
\* in FIELD_TYPE_CHOICES; type codes and keywords are pairwise distinct; so
\* every field row has a type the registry dispatches.
C8_Registry ==
    /\ Cardinality(FieldTypes) = 8
    /\ \A t \in FieldTypes : ValidatorTables(t) = 1
    /\ DOMAIN FIELD_VALIDATORS = FieldTypes \ {SELECT, USER}
    /\ DOMAIN SELECT_FIELD_VALIDATORS = {SELECT}
    /\ DOMAIN USER_FIELD_VALIDATORS = {USER}
    /\ DOMAIN FIELD_CONVERTERS = FieldTypes
    /\ Len(FIELD_TYPE_CHOICES) = 8
    /\ \A t \in FieldTypes :
           Cardinality({i \in 1..Len(FIELD_TYPE_CHOICES) : FIELD_TYPE_CHOICES[i][1] = t}) = 1
    /\ Len(AllTypeData) = 8
    /\ \A i, j \in 1..Len(AllTypeData) :
           i # j => /\ AllTypeData[i][1] # AllTypeData[j][1]
                    /\ AllTypeData[i][5] # AllTypeData[j][5]
    /\ \A f \in fields :
           /\ f.field_type \in FieldTypes
           /\ ValidatorTables(f.field_type) = 1
           /\ f.field_type \in DOMAIN FIELD_CONVERTERS

\* a realm has a USER field and a PRONOUNS field
C8_Witness ==
    \E f, g \in fields :
        /\ f.realm = g.realm
        /\ f.field_type = USER
        /\ g.field_type = PRONOUNS

====
